---- MODULE Spec2Model ----
(***************************************************************************)
(* Realtime notification and private-messaging core of the social client.  *)
(*                                                                         *)
(* The model follows src/src/components/Chat.tsx (first component in the   *)
(* file, lines 1-450) and src/src/components/Dashboard.tsx for the session *)
(* user `Self`, and src/supabase/migrations for the tables and their       *)
(* row-level policies.  Every `await` on the database splits a handler in  *)
(* two: the step at which the database executes the query or write, and    *)
(* the step at which the handler resumes with the response.  Other users   *)
(* (peers) are the environment: they insert message rows and friend        *)
(* request rows addressed to Self.                                         *)
(***************************************************************************)
EXTENDS Integers, Sequences, FiniteSets, TLC

(***************************************************************************)
(* Bounds of the model.                                                    *)
(***************************************************************************)
MaxMsgs == 2
MaxFriendReqs == 2
MaxTime == 2
MaxDeliveries == 2
MaxFetchOps == 1
MaxSendOps == 1
MaxToggleOps == 2
MaxNotifOps == 1

(***************************************************************************)
(* Users.  Self is session.user.id; Peers are the friends listed in the    *)
(* chat view; Requesters are users who send friend requests to Self.       *)
(***************************************************************************)
Self == "me"
Peers == {"p1", "p2"}
Requesters == {"r1", "r2"}
NoUser == "null"
Users == {Self} \cup Peers

MsgIds == 1..MaxMsgs
FriendIds == 1..MaxFriendReqs
Times == 1..MaxTime
NotEmitted == 0 - 1

(* crypto.randomUUID() of handleSendMessage: an id no server row has.      *)
LocalId(n) == 0 - n

(* toast / result shown to the user by the last handler that finished.     *)
NoToast == "none"
ChatLockedError == "Your chat is locked. Please unlock it in settings first."
LockNotConfiguredError == "Please enable chat locker in settings first"
SendError == "Error sending message"
FetchError == "Error fetching messages"
ToggleError == "Error toggling chat lock"
MovedToLocker == "Chat moved to locker"
MovedToNormal == "Chat moved to normal"
AcceptError == "Error accepting friend request"
AcceptOk == "Friend request accepted!"

VARIABLES
  dbMessages,      \* table public.messages: set of rows
  dbFriends,       \* table public.friends: set of rows with friend_id = Self
  dbProfile,       \* row of public.profiles with id = Self
  nextMsgId,       \* next server-assigned message id
  nextFriendId,    \* next server-assigned friends id
  clock,           \* Self's clock, read by new Date() in handleSendMessage
  chatMounted,     \* the Chat component is mounted (activeTab = 'chat')
  selectedUser,    \* Chat state selectedUser
  subSelectedUser, \* selectedUser as captured by the subscribeToMessages callback
  messages,        \* Chat state messages (the displayed conversation)
  nextLocal,       \* number of local ids drawn so far
  notifications,   \* Dashboard state notifications
  fetchOps,        \* fetchPrivateMessages calls in flight
  sendOps,         \* handleSendMessage calls in flight
  toggleOps,       \* toggleChatLock calls in flight
  notifOps,        \* fetchNotifications calls in flight
  chatEv,          \* per message id: deliveries made on channel 'chat-messages'
  dashMsgEv,       \* per message id: deliveries made on channel 'messages'
  dashFriendEv,    \* per friends id: deliveries made on channel 'friend-requests'
  lastToast,       \* last toast shown
  pump,            \* events with no usable record delivered so far, and the
                   \* exceptions that escaped a channel callback
  connected,       \* the realtime connection that carries the channels is up
  isConnected,     \* WebSocketManager.isConnected
  messageQueue,    \* WebSocketManager.messageQueue
  emitted,         \* messages emitted on the socket, in order
  flushLoops,      \* processMessageQueue calls suspended at their await
  nextWsMsg        \* number of the next message passed to sendMessage

vars == <<dbMessages, dbFriends, dbProfile, nextMsgId, nextFriendId, clock,
          chatMounted, selectedUser, subSelectedUser, messages, nextLocal,
          notifications, fetchOps, sendOps, toggleOps, notifOps,
          chatEv, dashMsgEv, dashFriendEv, lastToast, pump, connected,
          isConnected, messageQueue, emitted, flushLoops, nextWsMsg>>

dbVars == <<dbMessages, dbFriends, dbProfile, nextMsgId, nextFriendId>>
chatVars == <<chatMounted, selectedUser, subSelectedUser, messages, nextLocal>>
opVars == <<fetchOps, sendOps, toggleOps, notifOps>>
evVars == <<chatEv, dashMsgEv, dashFriendEv, pump, connected>>
wsVars == <<isConnected, messageQueue, emitted, flushLoops, nextWsMsg>>
appVars == <<dbVars, clock, chatVars, notifications, opVars, evVars, lastToast>>

(***************************************************************************)
(* Helpers on rows and sequences.                                          *)
(***************************************************************************)
RowById(id) == CHOOSE m \in dbMessages : m.id = id

(* .order('created_at', { ascending: true }); rows of equal created_at are *)
(* returned in id order.                                                   *)
RowBefore(a, b) == a.created_at < b.created_at \/ (a.created_at = b.created_at /\ a.id <= b.id)

RECURSIVE OrderAscending(_)
OrderAscending(S) ==
  IF S = {} THEN <<>>
  ELSE LET first == CHOOSE a \in S : \A b \in S : RowBefore(a, b)
       IN <<first>> \o OrderAscending(S \ {first})

(* rows of a result set that carries no order clause, taken in id order    *)
RECURSIVE OrderById(_)
OrderById(S) ==
  IF S = {} THEN <<>>
  ELSE LET first == CHOOSE a \in S : \A b \in S : a.id <= b.id
       IN <<first>> \o OrderById(S \ {first})

(* Array.prototype.sort with comparator (a, b) => b.created_at - a.created_at: *)
(* stable, descending created_at.                                          *)
RECURSIVE InsertDescending(_, _)
InsertDescending(s, x) ==
  IF s = <<>> THEN <<x>>
  ELSE IF Head(s).created_at >= x.created_at
       THEN <<Head(s)>> \o InsertDescending(Tail(s), x)
       ELSE <<x>> \o s

(* mutant: the list is left in the order of the concatenation             *)
SortDescending_Unsorted(s) == s

RECURSIVE SortDescending(_)
SortDescending(s) ==
  IF s = <<>> THEN <<>>
  ELSE InsertDescending(SortDescending(SubSeq(s, 1, Len(s) - 1)), s[Len(s)])


(***************************************************************************)
(* Rows and query filters.                                                 *)
(***************************************************************************)
NullProfile == [found |-> FALSE, chat_locked |-> FALSE, chat_locker_enabled |-> FALSE]

FoundProfile(row) == [found |-> TRUE, chat_locked |-> row.chat_locked,
                      chat_locker_enabled |-> row.chat_locker_enabled]

(* policies on public.profiles: a user reads and updates only the own row  *)
ProfileSelectPolicy(uid, rowId) == uid = rowId

ProfileUpdatePolicy(uid, rowId) == uid = rowId

(* .or(and(user_id.eq.self,recipient_id.eq.peer),and(user_id.eq.peer,recipient_id.eq.self)) *)
ConversationFilter(m, peer) ==
  \/ (m.user_id = Self /\ m.recipient_id = peer)
  \/ (m.user_id = peer /\ m.recipient_id = Self)

(* mutant: every fetched message addressed to Self is listed, read or not  *)
UnreadMessages_AllIncoming(data) ==
  {data[i].id : i \in {j \in 1..Len(data) : data[j].recipient_id = Self}}

(* data.filter(msg => msg.recipient_id === self && !msg.is_read)           *)
UnreadMessages(data) ==
  {data[i].id : i \in {j \in 1..Len(data) : data[j].recipient_id = Self /\ ~data[j].is_read}}

(* mutant: the update flips is_read of the listed rows                     *)
MarkRead_Flipping(rows, ids) ==
  {IF m.id \in ids THEN [m EXCEPT !.is_read = ~m.is_read] ELSE m : m \in rows}

(* update({ is_read: true }).in('id', ids) on table messages               *)
MarkRead(rows, ids) ==
  {IF m.id \in ids THEN [m EXCEPT !.is_read = TRUE] ELSE m : m \in rows}

(* the condition of the 'chat-messages' INSERT callback (is_private holds of every row) *)
EventMatches(newMsg, sel) ==
  \/ (newMsg.user_id = Self /\ newMsg.recipient_id = sel)
  \/ (newMsg.user_id = sel /\ newMsg.recipient_id = Self)

(* the branch toggleChatLock takes on the profile it read                  *)
ToggleBranch(profile) ==
  IF profile.chat_locker_enabled /\ ~profile.chat_locked THEN "lock"
  ELSE IF profile.chat_locked THEN "unlock"
  ELSE "refuse"

(* sender's lock test of handleSendMessage: profile?.chat_locked           *)
SendBlocked(profile) == profile.found /\ profile.chat_locked

FriendItem(request) ==
  [id |-> request.id, type |-> "friend_request", sender |-> request.user_id,
   created_at |-> request.created_at]

MessageItem(message) ==
  [id |-> message.id, type |-> "message", sender |-> message.user_id,
   created_at |-> message.created_at]

(* (friendRequests || []).map(...) and (unreadMessages || []).map(...)      *)
FriendItems(friendRequests) ==
  [i \in 1..Len(friendRequests) |-> FriendItem(friendRequests[i])]

MessageItems(unreadMessages) ==
  [i \in 1..Len(unreadMessages) |-> MessageItem(unreadMessages[i])]

(* notificationsList of fetchNotifications: both result sets mapped, concatenated, sorted *)
NotificationsList(friendRequests, unreadMessages) ==
  SortDescending(FriendItems(friendRequests) \o MessageItems(unreadMessages))

(* mutant: the fetched list is added to the displayed one                  *)
SetNotifications_Appending(current, list) == current \o list

(* setNotifications(notificationsList): the state is replaced by the new list *)
SetNotifications(current, list) == list

(* payloads of events that carry no usable row: payload.new is missing, or *)
(* it is an object without the columns the callbacks read                  *)
MalformedPayloads == {[hasNew |-> FALSE, hasColumns |-> FALSE],
                      [hasNew |-> TRUE, hasColumns |-> FALSE]}

(* 'chat-messages' callback: newMsg.is_private is read on payload.new with *)
(* no test of payload.new; on undefined the property read throws           *)
ChatCallbackThrows(payload) == ~payload.hasNew

(* 'friend-requests' callback: payload.new && typeof payload.new ===       *)
(* 'object' && 'status' in payload.new (&& status === 'pending')           *)
FriendCallbackAccepts(payload) == payload.hasNew /\ payload.hasColumns

PendingRequests == {f \in dbFriends : f.friend_id = Self /\ f.status = "pending"}

UnreadRows == {m \in dbMessages : m.recipient_id = Self /\ ~m.is_read}

(***************************************************************************)
(* Initial state: Dashboard mounted, its effect has called                 *)
(* subscribeToNotifications and fetchNotifications; Chat not mounted.  The *)
(* profile row persists across sessions: the locker may be enabled, and    *)
(* the account may have been left locked.                                  *)
(***************************************************************************)
NewNotifOp == [stage |-> "friends", friendRequests |-> <<>>, unreadMessages |-> <<>>, failed |-> FALSE]

Init ==
  /\ dbMessages = {}
  /\ dbFriends = {}
  /\ dbProfile \in {row \in [chat_locked : BOOLEAN, chat_locker_enabled : BOOLEAN] :
                       row.chat_locked => row.chat_locker_enabled}
  /\ nextMsgId = 1
  /\ nextFriendId = 1
  /\ clock = 1
  /\ chatMounted = FALSE
  /\ selectedUser = NoUser
  /\ subSelectedUser = NoUser
  /\ messages = <<>>
  /\ nextLocal = 0
  /\ notifications = <<>>
  /\ fetchOps = {}
  /\ sendOps = {}
  /\ toggleOps = {}
  /\ notifOps = {NewNotifOp}
  /\ chatEv = [i \in MsgIds |-> NotEmitted]
  /\ dashMsgEv = [i \in MsgIds |-> NotEmitted]
  /\ dashFriendEv = [i \in FriendIds |-> NotEmitted]
  /\ lastToast = NoToast
  /\ pump = [delivered |-> 0, uncaught |-> 0]
  /\ connected = TRUE
  /\ isConnected = FALSE
  /\ messageQueue = <<>>
  /\ emitted = <<>>
  /\ flushLoops = 0
  /\ nextWsMsg = 1

(***************************************************************************)
(* Environment: other users insert rows addressed to Self.                 *)
(***************************************************************************)
(* a peer's handleSendMessage inserts a row; created_at is the peer's clock *)
PeerSendMessage(p, t) ==
  /\ nextMsgId <= MaxMsgs
  /\ dbMessages' = dbMessages \cup
       {[id |-> nextMsgId, user_id |-> p, recipient_id |-> Self, created_at |-> t,
         is_read |-> FALSE, is_locked |-> FALSE]}
  /\ nextMsgId' = nextMsgId + 1
  /\ dashMsgEv' = [dashMsgEv EXCEPT ![nextMsgId] = IF connected THEN 0 ELSE NotEmitted]
  /\ chatEv' = [chatEv EXCEPT ![nextMsgId] = IF chatMounted /\ connected THEN 0 ELSE NotEmitted]
  /\ UNCHANGED <<dbFriends, dbProfile, nextFriendId, clock, chatVars, notifications,
                 opVars, dashFriendEv, lastToast, pump, connected>>
  /\ UNCHANGED wsVars

(* a user's sendFriendRequest inserts a pending row; created_at is the     *)
(* column default now(), which grows with every insert                     *)
PeerFriendRequest(r) ==
  /\ nextFriendId <= MaxFriendReqs
  /\ \A f \in dbFriends : f.user_id # r
  /\ dbFriends' = dbFriends \cup
       {[id |-> nextFriendId, user_id |-> r, friend_id |-> Self, status |-> "pending",
         created_at |-> nextFriendId]}
  /\ nextFriendId' = nextFriendId + 1
  /\ dashFriendEv' = [dashFriendEv EXCEPT ![nextFriendId] = IF connected THEN 0 ELSE NotEmitted]
  /\ UNCHANGED <<dbMessages, dbProfile, nextMsgId, clock, chatVars, notifications,
                 opVars, chatEv, dashMsgEv, lastToast, pump, connected>>
  /\ UNCHANGED wsVars

(***************************************************************************)
(* Chat component.                                                         *)
(***************************************************************************)
(* Dashboard renders <Chat/>: state initialised, mount effect subscribes   *)
MountChat ==
  /\ ~chatMounted
  /\ chatMounted' = TRUE
  /\ selectedUser' = NoUser
  /\ messages' = <<>>
  /\ subSelectedUser' = selectedUser'
  /\ UNCHANGED <<dbVars, clock, nextLocal, notifications, opVars, evVars, lastToast>>
  /\ UNCHANGED wsVars

(* another tab is shown: the effect's cleanup unsubscribes, state is gone  *)
UnmountChat ==
  /\ chatMounted
  /\ chatMounted' = FALSE
  /\ selectedUser' = NoUser
  /\ subSelectedUser' = NoUser
  /\ messages' = <<>>
  /\ chatEv' = [i \in MsgIds |-> NotEmitted]
  /\ fetchOps' = {[op EXCEPT !.live = FALSE] : op \in fetchOps}
  /\ sendOps' = {[op EXCEPT !.live = FALSE] : op \in sendOps}
  /\ UNCHANGED <<dbVars, clock, nextLocal, notifications, toggleOps, notifOps,
                 dashMsgEv, dashFriendEv, lastToast, pump, connected>>
  /\ UNCHANGED wsVars

(* click on a friend in the list: setSelectedUser(user.id); the            *)
(* [selectedUser] effect calls fetchPrivateMessages                        *)
SelectUser(p) ==
  /\ chatMounted
  /\ selectedUser = NoUser
  /\ Cardinality(fetchOps) < MaxFetchOps
  /\ selectedUser' = p
  /\ fetchOps' = fetchOps \cup {[stage |-> "select", peer |-> p, data |-> <<>>, ids |-> {}, live |-> TRUE]}
  /\ UNCHANGED <<dbVars, clock, chatMounted, subSelectedUser, messages, nextLocal,
                 notifications, sendOps, toggleOps, notifOps, evVars, lastToast>>
  /\ UNCHANGED wsVars

(* back button: setSelectedUser(null)                                      *)
CloseConversation ==
  /\ chatMounted
  /\ selectedUser # NoUser
  /\ selectedUser' = NoUser
  /\ UNCHANGED <<dbVars, clock, chatMounted, subSelectedUser, messages, nextLocal,
                 notifications, opVars, evVars, lastToast>>
  /\ UNCHANGED wsVars

(* fetchPrivateMessages: the database executes the select                  *)
FetchSelect(op) ==
  /\ op \in fetchOps
  /\ op.stage = "select"
  /\ \E ok \in BOOLEAN :
       IF ok
       THEN /\ fetchOps' = (fetchOps \ {op}) \cup
                 {[op EXCEPT !.stage = "apply",
                             !.data = OrderAscending({m \in dbMessages : ConversationFilter(m, op.peer)})]}
            /\ UNCHANGED lastToast
       ELSE /\ fetchOps' = fetchOps \ {op}
            /\ lastToast' = FetchError
  /\ UNCHANGED <<dbVars, clock, chatVars, notifications, sendOps, toggleOps, notifOps, evVars>>
  /\ UNCHANGED wsVars

(* fetchPrivateMessages resumes: setMessages(data), unread rows computed   *)
FetchApply(op) ==
  /\ op \in fetchOps
  /\ op.stage = "apply"
  /\ messages' = IF op.live THEN op.data ELSE messages
  /\ fetchOps' = IF UnreadMessages(op.data) # {}
                 THEN (fetchOps \ {op}) \cup {[op EXCEPT !.stage = "update", !.ids = UnreadMessages(op.data)]}
                 ELSE fetchOps \ {op}
  /\ UNCHANGED <<dbVars, clock, chatMounted, selectedUser, subSelectedUser, nextLocal,
                 notifications, sendOps, toggleOps, notifOps, evVars, lastToast>>
  /\ UNCHANGED wsVars

(* fetchPrivateMessages: update({is_read: true}).in('id', ids)             *)
FetchUpdate(op) ==
  /\ op \in fetchOps
  /\ op.stage = "update"
  /\ fetchOps' = fetchOps \ {op}
  /\ \E ok \in BOOLEAN :
       IF ok
       THEN /\ dbMessages' = MarkRead(dbMessages, op.ids)
            /\ UNCHANGED lastToast
       ELSE /\ lastToast' = FetchError
            /\ UNCHANGED dbMessages
  /\ UNCHANGED <<dbFriends, dbProfile, nextMsgId, nextFriendId, clock, chatVars, notifications,
                 sendOps, toggleOps, notifOps, evVars>>
  /\ UNCHANGED wsVars

(* the 'chat-messages' INSERT callback registered by subscribeToMessages   *)
ChatMessageEvent(id) ==
  /\ chatMounted
  /\ connected
  /\ chatEv[id] >= 0
  /\ chatEv[id] < MaxDeliveries
  /\ chatEv' = [chatEv EXCEPT ![id] = chatEv[id] + 1]
  /\ LET newMsg == [RowById(id) EXCEPT !.is_read = FALSE]
     IN messages' = IF EventMatches(newMsg, subSelectedUser)
                    THEN Append(messages, newMsg)
                    ELSE messages
  /\ UNCHANGED <<dbVars, clock, chatMounted, selectedUser, subSelectedUser, nextLocal,
                 notifications, opVars, dashMsgEv, dashFriendEv, lastToast, pump, connected>>
  /\ UNCHANGED wsVars


(* handleSendMessage up to its insert: the sender's profile is read (the   *)
(* read may fail, leaving profile null), a locked sender is refused,       *)
(* otherwise newMsg is built with created_at = new Date()                  *)
handleSendMessage ==
  /\ chatMounted
  /\ selectedUser # NoUser
  /\ Cardinality(sendOps) < MaxSendOps
  /\ clock <= MaxTime
  /\ \E ok \in BOOLEAN :
       LET profile == IF ok THEN FoundProfile(dbProfile) ELSE NullProfile
       IN IF SendBlocked(profile)
          THEN /\ lastToast' = ChatLockedError
               /\ UNCHANGED <<sendOps, clock>>
          ELSE /\ sendOps' = sendOps \cup
                     {[stage |-> "insert", peer |-> selectedUser, created_at |-> clock,
                       is_locked |-> profile.chat_locked, live |-> TRUE]}
               /\ clock' = clock + 1
               /\ UNCHANGED lastToast
  /\ UNCHANGED <<dbVars, chatVars, notifications, fetchOps, toggleOps, notifOps, evVars>>
  /\ UNCHANGED wsVars

(* handleSendMessage: the database executes insert([newMsg]); the row is   *)
(* addressed to the peer, so no channel of Self carries its INSERT event   *)
SendInsert(op) ==
  /\ op \in sendOps
  /\ op.stage = "insert"
  /\ \E ok \in BOOLEAN :
       IF ok /\ nextMsgId <= MaxMsgs
       THEN /\ dbMessages' = dbMessages \cup
                 {[id |-> nextMsgId, user_id |-> Self, recipient_id |-> op.peer,
                   created_at |-> op.created_at, is_read |-> FALSE, is_locked |-> op.is_locked]}
            /\ nextMsgId' = nextMsgId + 1
            /\ sendOps' = (sendOps \ {op}) \cup {[op EXCEPT !.stage = "append"]}
            /\ UNCHANGED lastToast
       ELSE /\ sendOps' = sendOps \ {op}
            /\ lastToast' = SendError
            /\ UNCHANGED <<dbMessages, nextMsgId>>
  /\ UNCHANGED <<dbFriends, dbProfile, nextFriendId, clock, chatVars, notifications,
                 fetchOps, toggleOps, notifOps, evVars>>
  /\ UNCHANGED wsVars

(* handleSendMessage resumes: setMessages(current => [...current, {...newMsg, id: randomUUID()}]) *)
SendAppend(op) ==
  /\ op \in sendOps
  /\ op.stage = "append"
  /\ sendOps' = sendOps \ {op}
  /\ IF op.live
     THEN /\ messages' = Append(messages,
                 [id |-> LocalId(nextLocal + 1), user_id |-> Self, recipient_id |-> op.peer,
                  created_at |-> op.created_at, is_read |-> FALSE, is_locked |-> op.is_locked])
          /\ nextLocal' = nextLocal + 1
     ELSE UNCHANGED <<messages, nextLocal>>
  /\ UNCHANGED <<dbVars, clock, chatMounted, selectedUser, subSelectedUser, notifications,
                 fetchOps, toggleOps, notifOps, evVars, lastToast>>
  /\ UNCHANGED wsVars

(* lock button of a listed user or of the open conversation: toggleChatLock(userId) *)
(* is called and issues its select on profiles; `call` tells calls in      *)
(* flight apart                                                            *)
toggleChatLock(userId) ==
  /\ chatMounted
  /\ Cardinality(toggleOps) < MaxToggleOps
  /\ toggleOps' = toggleOps \cup
       {[stage |-> "read", userId |-> userId, chat_locked |-> FALSE,
         call |-> CHOOSE k \in 1..MaxToggleOps : \A o \in toggleOps : o.call # k]}
  /\ UNCHANGED <<dbVars, clock, chatVars, notifications, fetchOps, sendOps, notifOps, evVars, lastToast>>
  /\ UNCHANGED wsVars

(* toggleChatLock: the profile row of userId is read under the select      *)
(* policy (no row or a failed read leave profile null: nothing is done),   *)
(* then the branch is taken                                                *)
ToggleRead(op) ==
  /\ op \in toggleOps
  /\ op.stage = "read"
  /\ \E ok \in BOOLEAN :
       LET profile == IF ok /\ ProfileSelectPolicy(Self, op.userId)
                      THEN FoundProfile(dbProfile) ELSE NullProfile
       IN IF ~profile.found
          THEN /\ toggleOps' = toggleOps \ {op}
               /\ UNCHANGED lastToast
          ELSE IF ToggleBranch(profile) = "lock"
          THEN /\ toggleOps' = (toggleOps \ {op}) \cup {[op EXCEPT !.stage = "write", !.chat_locked = TRUE]}
               /\ UNCHANGED lastToast
          ELSE IF ToggleBranch(profile) = "unlock"
          THEN /\ toggleOps' = (toggleOps \ {op}) \cup {[op EXCEPT !.stage = "write", !.chat_locked = FALSE]}
               /\ UNCHANGED lastToast
          ELSE /\ toggleOps' = toggleOps \ {op}
               /\ lastToast' = LockNotConfiguredError
  /\ UNCHANGED <<dbVars, clock, chatVars, notifications, fetchOps, sendOps, notifOps, evVars>>
  /\ UNCHANGED wsVars

(* toggleChatLock: the database executes update({chat_locked, chat_password}).eq('id', userId) *)
ToggleWrite(op) ==
  /\ op \in toggleOps
  /\ op.stage = "write"
  /\ toggleOps' = toggleOps \ {op}
  /\ \E ok \in BOOLEAN :
       IF ok
       THEN /\ dbProfile' = IF ProfileUpdatePolicy(Self, op.userId)
                            THEN [dbProfile EXCEPT !.chat_locked = op.chat_locked]
                            ELSE dbProfile
            /\ lastToast' = IF op.chat_locked THEN MovedToLocker ELSE MovedToNormal
       ELSE /\ lastToast' = ToggleError
            /\ UNCHANGED dbProfile
  /\ UNCHANGED <<dbMessages, dbFriends, nextMsgId, nextFriendId, clock, chatVars, notifications,
                 fetchOps, sendOps, notifOps, evVars>>
  /\ UNCHANGED wsVars

(***************************************************************************)
(* Dashboard component.                                                    *)
(***************************************************************************)
(* the 'friend-requests' INSERT callback: a pending row calls fetchNotifications *)
FriendRequestEvent(id) ==
  /\ connected
  /\ dashFriendEv[id] >= 0
  /\ dashFriendEv[id] < MaxDeliveries
  /\ Cardinality(notifOps) < MaxNotifOps
  /\ dashFriendEv' = [dashFriendEv EXCEPT ![id] = dashFriendEv[id] + 1]
  /\ notifOps' = notifOps \cup {NewNotifOp}
  /\ UNCHANGED <<dbVars, clock, chatVars, notifications, fetchOps, sendOps, toggleOps,
                 chatEv, dashMsgEv, lastToast, pump, connected>>
  /\ UNCHANGED wsVars

(* the 'messages' INSERT callback: calls fetchNotifications                *)
MessageEvent(id) ==
  /\ connected
  /\ dashMsgEv[id] >= 0
  /\ dashMsgEv[id] < MaxDeliveries
  /\ Cardinality(notifOps) < MaxNotifOps
  /\ dashMsgEv' = [dashMsgEv EXCEPT ![id] = dashMsgEv[id] + 1]
  /\ notifOps' = notifOps \cup {NewNotifOp}
  /\ UNCHANGED <<dbVars, clock, chatVars, notifications, fetchOps, sendOps, toggleOps,
                 chatEv, dashFriendEv, lastToast, pump, connected>>
  /\ UNCHANGED wsVars

(* 'chat-messages' callback on an event with no usable row: is_private is  *)
(* undefined and nothing is appended, or the read of it throws             *)
ChatMalformedEvent(payload) ==
  /\ chatMounted
  /\ connected
  /\ pump.delivered < MaxDeliveries
  /\ pump' = [delivered |-> pump.delivered + 1,
              uncaught |-> IF ChatCallbackThrows(payload)
                           THEN pump.uncaught + 1 ELSE pump.uncaught]
  /\ UNCHANGED <<dbVars, clock, chatVars, notifications, opVars, chatEv, dashMsgEv,
                 dashFriendEv, lastToast, connected>>
  /\ UNCHANGED wsVars

(* 'friend-requests' callback on an event with no usable row               *)
FriendMalformedEvent(payload) ==
  /\ connected
  /\ pump.delivered < MaxDeliveries
  /\ FriendCallbackAccepts(payload) => Cardinality(notifOps) < MaxNotifOps
  /\ pump' = [pump EXCEPT !.delivered = pump.delivered + 1]
  /\ notifOps' = IF FriendCallbackAccepts(payload) THEN notifOps \cup {NewNotifOp} ELSE notifOps
  /\ UNCHANGED <<dbVars, clock, chatVars, notifications, fetchOps, sendOps, toggleOps,
                 chatEv, dashMsgEv, dashFriendEv, lastToast, connected>>
  /\ UNCHANGED wsVars

(* 'messages' callback on an event with no usable row: the payload is not  *)
(* read, fetchNotifications is called                                      *)
MessageMalformedEvent(payload) ==
  /\ connected
  /\ pump.delivered < MaxDeliveries
  /\ Cardinality(notifOps) < MaxNotifOps
  /\ pump' = [pump EXCEPT !.delivered = pump.delivered + 1]
  /\ notifOps' = notifOps \cup {NewNotifOp}
  /\ UNCHANGED <<dbVars, clock, chatVars, notifications, fetchOps, sendOps, toggleOps,
                 chatEv, dashMsgEv, dashFriendEv, lastToast, connected>>
  /\ UNCHANGED wsVars

(* the realtime connection drops; rows inserted from now on emit no event   *)
Disconnect ==
  /\ connected
  /\ connected' = FALSE
  /\ UNCHANGED <<dbVars, clock, chatVars, notifications, opVars, chatEv, dashMsgEv,
                 dashFriendEv, lastToast, pump>>
  /\ UNCHANGED wsVars

(* the connection is up again and the channels are joined again: both      *)
(* components called subscribe() with no status callback, so no code of    *)
(* theirs runs                                                             *)
Reconnect ==
  /\ ~connected
  /\ connected' = TRUE
  /\ UNCHANGED <<dbVars, clock, chatVars, notifications, opVars, chatEv, dashMsgEv,
                 dashFriendEv, lastToast, pump>>
  /\ UNCHANGED wsVars

(* fetchNotifications: the database executes the select on friends         *)
NotifSelectFriends(op) ==
  /\ op \in notifOps
  /\ op.stage = "friends"
  /\ \E ok \in BOOLEAN :
       notifOps' = (notifOps \ {op}) \cup
         {IF ok THEN [op EXCEPT !.stage = "messages", !.friendRequests = OrderById(PendingRequests)]
                ELSE [op EXCEPT !.stage = "messages", !.failed = TRUE]}
  /\ UNCHANGED <<dbVars, clock, chatVars, notifications, fetchOps, sendOps, toggleOps,
                 evVars, lastToast>>
  /\ UNCHANGED wsVars

(* fetchNotifications: the database executes the select on messages        *)
NotifSelectMessages(op) ==
  /\ op \in notifOps
  /\ op.stage = "messages"
  /\ \E ok \in BOOLEAN :
       notifOps' = (notifOps \ {op}) \cup
         {IF ok THEN [op EXCEPT !.stage = "apply", !.unreadMessages = OrderById(UnreadRows)]
                ELSE [op EXCEPT !.stage = "apply", !.failed = TRUE]}
  /\ UNCHANGED <<dbVars, clock, chatVars, notifications, fetchOps, sendOps, toggleOps,
                 evVars, lastToast>>
  /\ UNCHANGED wsVars

(* mutant: a failed refresh empties the list and shows a toast             *)
NotifApply_ClearingOnError(op) ==
  /\ op \in notifOps
  /\ op.stage = "apply"
  /\ notifOps' = notifOps \ {op}
  /\ notifications' = IF op.failed THEN <<>>
                      ELSE SetNotifications(notifications,
                             NotificationsList(op.friendRequests, op.unreadMessages))
  /\ lastToast' = IF op.failed THEN FetchError ELSE lastToast
  /\ UNCHANGED <<dbVars, clock, chatVars, fetchOps, sendOps, toggleOps, evVars>>
  /\ UNCHANGED wsVars

(* fetchNotifications resumes: an error is logged, otherwise the list is set *)
NotifApply(op) ==
  /\ op \in notifOps
  /\ op.stage = "apply"
  /\ notifOps' = notifOps \ {op}
  /\ notifications' = IF op.failed THEN notifications
                      ELSE SetNotifications(notifications,
                             NotificationsList(op.friendRequests, op.unreadMessages))
  /\ UNCHANGED <<dbVars, clock, chatVars, fetchOps, sendOps, toggleOps, evVars, lastToast>>
  /\ UNCHANGED wsVars

(* Accept button of a friend_request item: update({status: 'accepted'}).eq('id', friendId), *)
(* then fetchNotifications                                                 *)
handleAcceptFriendRequest(friendId) ==
  /\ \E i \in 1..Len(notifications) :
       notifications[i].type = "friend_request" /\ notifications[i].id = friendId
  /\ Cardinality(notifOps) < MaxNotifOps
  /\ \E ok \in BOOLEAN :
       IF ok
       THEN /\ dbFriends' = {IF f.id = friendId THEN [f EXCEPT !.status = "accepted"] ELSE f : f \in dbFriends}
            /\ notifOps' = notifOps \cup {NewNotifOp}
            /\ lastToast' = AcceptOk
       ELSE /\ lastToast' = AcceptError
            /\ UNCHANGED <<dbFriends, notifOps>>
  /\ UNCHANGED <<dbMessages, dbProfile, nextMsgId, nextFriendId, clock, chatVars, notifications,
                 fetchOps, sendOps, toggleOps, evVars>>
  /\ UNCHANGED wsVars

(***************************************************************************)
(* Specifications.                                                         *)
(***************************************************************************)
Environment ==
  \/ \E p \in Peers, t \in Times : PeerSendMessage(p, t)
  \/ \E r \in Requesters : PeerFriendRequest(r)

ChatView ==
  \/ MountChat
  \/ UnmountChat
  \/ \E p \in Peers : SelectUser(p)
  \/ CloseConversation

FetchPrivateMessages ==
  \/ \E op \in fetchOps : FetchSelect(op)
  \/ \E op \in fetchOps : FetchApply(op)
  \/ \E op \in fetchOps : FetchUpdate(op)

SendMessage ==
  \/ handleSendMessage
  \/ \E op \in sendOps : SendInsert(op)
  \/ \E op \in sendOps : SendAppend(op)

ChatLock ==
  \/ \E userId \in Users : toggleChatLock(userId)
  \/ \E op \in toggleOps : ToggleRead(op)
  \/ \E op \in toggleOps : ToggleWrite(op)

FetchNotifications ==
  \/ \E op \in notifOps : NotifSelectFriends(op)
  \/ \E op \in notifOps : NotifSelectMessages(op)
  \/ \E op \in notifOps : NotifApply(op)

Events ==
  \/ \E id \in MsgIds : ChatMessageEvent(id)
  \/ \E id \in FriendIds : FriendRequestEvent(id)
  \/ \E id \in MsgIds : MessageEvent(id)
  \/ \E payload \in MalformedPayloads : ChatMalformedEvent(payload)
  \/ \E payload \in MalformedPayloads : FriendMalformedEvent(payload)
  \/ \E payload \in MalformedPayloads : MessageMalformedEvent(payload)
  \/ Disconnect
  \/ Reconnect

\* ---------------------------------------------------------------------
\* WebSocketManager (src/unnamed/part_008): an outgoing queue in front of
\* a socket.  A message is a record [seq, serializable]: seq is the order
\* of the sendMessage call, serializable tells whether socket.emit
\* accepts it (emit throws while encoding a value it cannot serialize).
\* ---------------------------------------------------------------------
MaxWsMsgs == 3
MaxWsLoops == 2

WsMessage(seq, serializable) == [seq |-> seq, serializable |-> serializable]

\* socket.emit('message', message) throws
EmitThrows(message) == ~message.serializable

\* messageQueue after sendMessage(message): pushed when disconnected and
\* in the catch branch, untouched when emit succeeded
QueueAfterSend_NoRequeue(queue, message, conn) ==
  IF ~conn THEN Append(queue, message) ELSE queue

QueueAfterSend(queue, message, conn) ==
  IF ~conn \/ EmitThrows(message) THEN Append(queue, message) ELSE queue

\* what the socket has emitted after sendMessage(message)
EmittedAfterSend(out, message, conn) ==
  IF conn /\ ~EmitThrows(message) THEN Append(out, message) ELSE out

\* one turn of the while loop of processMessageQueue up to its await:
\* shift the head and pass it to sendMessage
LoopTurn ==
  /\ messageQueue' = QueueAfterSend(Tail(messageQueue), Head(messageQueue), isConnected')
  /\ emitted' = EmittedAfterSend(emitted, Head(messageQueue), isConnected')

\* a caller passes the next message to sendMessage
sendMessage(serializable) ==
  /\ nextWsMsg <= MaxWsMsgs
  /\ nextWsMsg' = nextWsMsg + 1
  /\ messageQueue' = QueueAfterSend(messageQueue, WsMessage(nextWsMsg, serializable), isConnected)
  /\ emitted' = EmittedAfterSend(emitted, WsMessage(nextWsMsg, serializable), isConnected)
  /\ UNCHANGED <<isConnected, flushLoops>>
  /\ UNCHANGED appVars

\* the socket's 'connect' event: set the flag and call
\* processMessageQueue, which runs up to its first await
OnConnect ==
  /\ ~isConnected
  /\ isConnected' = TRUE
  /\ IF messageQueue # <<>>
       THEN /\ flushLoops < MaxWsLoops
            /\ LoopTurn
            /\ flushLoops' = flushLoops + 1
       ELSE UNCHANGED <<messageQueue, emitted, flushLoops>>
  /\ UNCHANGED nextWsMsg
  /\ UNCHANGED appVars

\* the socket's 'disconnect' event
OnDisconnect ==
  /\ isConnected
  /\ isConnected' = FALSE
  /\ UNCHANGED <<messageQueue, emitted, flushLoops, nextWsMsg>>
  /\ UNCHANGED appVars

\* a suspended processMessageQueue resumes after its await: test the
\* loop condition, then either take another turn or return
processMessageQueue ==
  /\ flushLoops > 0
  /\ UNCHANGED isConnected
  /\ IF messageQueue # <<>> /\ isConnected
       THEN LoopTurn /\ UNCHANGED flushLoops
       ELSE flushLoops' = flushLoops - 1 /\ UNCHANGED <<messageQueue, emitted>>
  /\ UNCHANGED nextWsMsg
  /\ UNCHANGED appVars

NextSocket ==
  \/ \E serializable \in BOOLEAN : sendMessage(serializable)
  \/ OnConnect
  \/ OnDisconnect
  \/ processMessageQueue

SpecSocket == Init /\ [][NextSocket]_vars

\* the event loop runs every pending continuation, so a suspended
\* processMessageQueue always resumes
SpecSocketLive == SpecSocket /\ WF_vars(processMessageQueue)

Next ==
  \/ Environment
  \/ ChatView
  \/ FetchPrivateMessages
  \/ SendMessage
  \/ ChatLock
  \/ FetchNotifications
  \/ Events
  \/ \E friendId \in FriendIds : handleAcceptFriendRequest(friendId)
  \/ NextSocket

Spec == Init /\ [][Next]_vars

(* the chat session: conversations, history fetches, sends, realtime messages *)
NextChat ==
  \/ \E p \in Peers, t \in Times : PeerSendMessage(p, t)
  \/ ChatView
  \/ FetchPrivateMessages
  \/ SendMessage
  \/ \E id \in MsgIds : ChatMessageEvent(id)

SpecChat == Init /\ [][NextChat]_vars

(* the lock state machine and the sends it gates *)
NextLock ==
  \/ MountChat
  \/ \E p \in Peers : SelectUser(p)
  \/ CloseConversation
  \/ SendMessage
  \/ ChatLock

SpecLock == Init /\ [][NextLock]_vars

(* the notification feed of the Dashboard *)
NextNotif ==
  \/ PeerSendMessage("p1", 1)
  \/ PeerFriendRequest("r1")
  \/ FetchNotifications
  \/ \E id \in FriendIds : FriendRequestEvent(id)
  \/ \E id \in MsgIds : MessageEvent(id)
  \/ \E friendId \in FriendIds : handleAcceptFriendRequest(friendId)

SpecNotif == Init /\ [][NextNotif]_vars

(* message notifications and the conversations whose opening marks messages read *)
NextRead ==
  \/ \E p \in Peers : PeerSendMessage(p, 1)
  \/ MountChat
  \/ \E p \in Peers : SelectUser(p)
  \/ CloseConversation
  \/ FetchPrivateMessages
  \/ FetchNotifications
  \/ \E id \in MsgIds : MessageEvent(id)

SpecRead == Init /\ [][NextRead]_vars

(* message notifications while the lock state of the account stays as it is *)
NextGate ==
  \/ \E p \in Peers, t \in Times : PeerSendMessage(p, t)
  \/ FetchNotifications
  \/ \E id \in MsgIds : MessageEvent(id)

SpecGate == Init /\ [][NextGate]_vars

(* messages that arrive from the peer whose conversation is open: the      *)
(* conversation, once opened, stays open                                   *)
NextFocus ==
  \/ MountChat
  \/ \E p \in Peers : SelectUser(p)
  \/ \E p \in Peers, t \in Times : selectedUser = p /\ PeerSendMessage(p, t)
  \/ FetchPrivateMessages
  \/ FetchNotifications
  \/ \E id \in MsgIds : MessageEvent(id)

SpecFocus == Init /\ [][NextFocus]_vars

(* the three channel callbacks, fed rows and events with no usable row     *)
NextPump ==
  \/ MountChat
  \/ PeerSendMessage("p1", 1)
  \/ FetchNotifications
  \/ \E id \in MsgIds : ChatMessageEvent(id)
  \/ \E id \in MsgIds : MessageEvent(id)
  \/ \E payload \in MalformedPayloads : ChatMalformedEvent(payload)
  \/ \E payload \in MalformedPayloads : FriendMalformedEvent(payload)
  \/ \E payload \in MalformedPayloads : MessageMalformedEvent(payload)

SpecPump == Init /\ [][NextPump]_vars

(* conversations opened, closed and opened again while messages arrive and *)
(* are sent: the history fetch and its mark-read update                    *)
NextMarkRead ==
  \/ PeerSendMessage("p1", 1)
  \/ MountChat
  \/ SelectUser("p1")
  \/ CloseConversation
  \/ FetchPrivateMessages
  \/ SendMessage

SpecMarkRead == Init /\ [][NextMarkRead]_vars

(* the connection drops and comes back while messages arrive               *)
NextConn ==
  \/ PeerSendMessage("p1", 1)
  \/ MountChat
  \/ SelectUser("p1")
  \/ FetchPrivateMessages
  \/ FetchNotifications
  \/ \E id \in MsgIds : ChatMessageEvent(id)
  \/ \E id \in MsgIds : MessageEvent(id)
  \/ Disconnect
  \/ Reconnect

SpecConn == Init /\ [][NextConn]_vars

(* the notification feed with messages of differing created_at             *)
NextSort ==
  \/ \E t \in Times : PeerSendMessage("p1", t)
  \/ PeerFriendRequest("r1")
  \/ FetchNotifications
  \/ \E id \in MsgIds : MessageEvent(id)

SpecSort == Init /\ [][NextSort]_vars

(* sends and lock toggles that overlap; the profile read of a send returns *)
(* the row, so a send that finds the account locked is refused             *)
NextRace ==
  \/ MountChat
  \/ SelectUser("p1")
  \/ handleSendMessage /\ (dbProfile.chat_locked => sendOps' = sendOps)
  \/ \E op \in sendOps : SendInsert(op)
  \/ \E op \in sendOps : SendAppend(op)
  \/ ChatLock

SpecRace == Init /\ [][NextRace]_vars

(***************************************************************************)
(* Properties.                                                             *)
(***************************************************************************)
CountId(seq, id) == Cardinality({i \in 1..Len(seq) : seq[i].id = id})

MessageItemIds(list) == {list[i].id : i \in {j \in 1..Len(list) : list[j].type = "message"}}

MessageItemsFrom(list, p) ==
  Cardinality({i \in 1..Len(list) : list[i].type = "message" /\ list[i].sender = p})

RowsFrom(p) == {m \in dbMessages : m.user_id = p /\ m.recipient_id = Self}

UnreadFrom(p) == {m \in RowsFrom(p) : ~m.is_read}

(* C1: a MessageCreated event delivered on the chat channel for the open   *)
(* conversation, for the first time or again, leaves exactly one displayed *)
(* message with its id.                                                    *)
C1_DeliveryLeavesOneMessage ==
  [][\A id \in MsgIds :
       (/\ chatEv[id] >= 0
        /\ chatEv'[id] = chatEv[id] + 1
        /\ RowById(id).user_id = selectedUser)
       => CountId(messages', id) = 1]_vars

(* C2: in a session whose account is Locked throughout (SpecGate takes no  *)
(* lock step, and every message is created during the session), no        *)
(* message whose MessageCreated event was delivered has a notification     *)
(* item.                                                                   *)
C2_LockedNoMessageItem ==
  dbProfile.chat_locked =>
    \A id \in MsgIds : dashMsgEv[id] >= 1 => id \notin MessageItemIds(notifications)

(* C3: while the sender's own profile is Locked, no call of                *)
(* handleSendMessage gets past the lock test: no message of it is on its   *)
(* way to the store or to the displayed conversation.                      *)
C3_LockedSendRefused ==
  [][dbProfile.chat_locked => sendOps' \subseteq sendOps]_vars

(* C4: no state has every message of peer P marked read while a message    *)
(* notification of P is still listed.                                      *)
C4_ReadRemovesNotifications ==
  \A p \in Peers :
    (RowsFrom(p) # {} /\ UnreadFrom(p) = {}) => MessageItemsFrom(notifications, p) = 0

(* C5: the notification list holds at most one item per (kind, entity id). *)
C5_OneItemPerEntity ==
  \A i, j \in 1..Len(notifications) :
    (notifications[i].type = notifications[j].type /\ notifications[i].id = notifications[j].id)
      => i = j

(* C5 witness: the INSERT events of friendship 1 and of message 1 were     *)
(* each ingested twice and the list holds one item for each.               *)
C5_Witness ==
  /\ dashFriendEv[1] >= 2
  /\ dashMsgEv[1] >= 2
  /\ notifOps = {}
  /\ Cardinality({i \in 1..Len(notifications) :
                    notifications[i].type = "friend_request" /\ notifications[i].id = 1}) = 1
  /\ Cardinality({i \in 1..Len(notifications) :
                    notifications[i].type = "message" /\ notifications[i].id = 1}) = 1

(* C6: the displayed messages of the open conversation are in ascending    *)
(* created_at order.                                                       *)
C6_DisplayedAscending ==
  selectedUser # NoUser =>
    \A i, j \in 1..Len(messages) : i < j => messages[i].created_at <= messages[j].created_at

(* C7: a send shows as one message: the displayed list never holds two     *)
(* entries for the same send of Self (same created_at of Self's clock).    *)
C7_OneVisiblePerSend ==
  \A t \in 1..(MaxTime + 1) :
    Cardinality({i \in 1..Len(messages) :
                   messages[i].user_id = Self /\ messages[i].created_at = t}) <= 1

(* C8: once every emitted event is delivered and no fetch is in flight,    *)
(* the unread count kept for each peer (the message notifications of that  *)
(* peer) is not above the number of the peer's messages to Self that are   *)
(* not read: the half of the claimed equality that a failed refresh, which *)
(* keeps the previous list, cannot break.                                  *)
C8_UnreadCountMatches ==
  (/\ fetchOps = {}
   /\ notifOps = {}
   /\ \A id \in MsgIds : dashMsgEv[id] # 0)
  => \A p \in Peers : MessageItemsFrom(notifications, p) <= Cardinality(UnreadFrom(p))

(* C9: a lock request that finds the account with no locker configured     *)
(* (and not locked) ends with LockNotConfiguredError and changes nothing.  *)
C9_UnconfiguredLockRefused ==
  [][\A op \in toggleOps :
       (/\ op.stage = "read"
        /\ op \notin toggleOps'
        /\ ~dbProfile.chat_locker_enabled
        /\ ~dbProfile.chat_locked)
       => (/\ lastToast' = LockNotConfiguredError
           /\ dbProfile' = dbProfile
           /\ toggleOps' = toggleOps \ {op})]_vars

(* C10: toggleChatLock asks for no passphrase and calls no verification,   *)
(* so every unlock request is an unverified one: under the claim no step   *)
(* takes the lock state from Locked to Normal.                             *)
C10_NoUnverifiedUnlock ==
  [][dbProfile.chat_locked => dbProfile'.chat_locked]_vars

(* C11: in a session where every message is created while the conversation *)
(* with its sender is the open one and stays open (SpecFocus), no step     *)
(* taken after the message's MessageCreated event was ingested puts a      *)
(* message item for it in the notification list.                           *)
C11_OpenConversationNoItem ==
  [][\A id \in MsgIds :
       (/\ dashMsgEv[id] >= 1
        /\ id \notin MessageItemIds(notifications)
        /\ id \in MessageItemIds(notifications'))
       => RowById(id).user_id # selectedUser]_vars

(* C12: the notification list never holds more items than the configured   *)
(* maximum.  The code configures none; the maximum is taken here as the    *)
(* number of messages the model creates, so that a friend request on top   *)
(* of them is an ingest that would exceed it.                              *)
NotificationCap == MaxMsgs

C12_ListCapped == Len(notifications) <= NotificationCap

(* C13: a history fetch that is still in flight when the Chat component is *)
(* unmounted is dropped: the step that completes it, or moves it on,       *)
(* changes neither the displayed conversation nor the stored messages and  *)
(* their read state.                                                       *)
C13_LateFetchDropped ==
  [][\A op \in fetchOps :
       (~chatMounted /\ ~op.live /\ op \notin fetchOps')
       => (messages' = messages /\ dbMessages' = dbMessages)]_vars

(* message m is shown in list: under its id, or as the same message of the *)
(* same sender under another id                                            *)
ShownIn(m, list) ==
  \E j \in 1..Len(list) :
    \/ list[j].id = m.id
    \/ (/\ list[j].user_id = m.user_id
        /\ list[j].recipient_id = m.recipient_id
        /\ list[j].created_at = m.created_at)

(* C14: when the result of a history fetch of the open conversation is     *)
(* applied, every message displayed just before is still displayed.        *)
C14_FetchKeepsLocalMessages ==
  [][\A op \in fetchOps :
       (/\ op.stage = "apply" /\ op.live /\ op.peer = selectedUser
        /\ op \notin fetchOps' /\ chatMounted')
       => \A i \in 1..Len(messages) : ShownIn(messages[i], messages')]_vars

(* C15: no exception escapes a channel callback, whatever the event.       *)
C15_IngestNeverThrows == pump.uncaught = 0

(* C16: the mark-read update of fetchPrivateMessages is idempotent; it     *)
(* marks only messages of the fetched conversation that the peer sent to   *)
(* Self and that the fetch returned; it changes nothing when those are     *)
(* read already; and no step turns a read message back to unread.          *)
C16_MarkReadIdempotent ==
  [][/\ \A m \in dbMessages :
          \E n \in dbMessages' : n.id = m.id /\ (m.is_read => n.is_read)
     /\ \A n \in dbMessages' :
          (n.is_read /\ [n EXCEPT !.is_read = FALSE] \in dbMessages)
          => (/\ n.user_id # Self
              /\ n.recipient_id = Self
              /\ \E op \in fetchOps :
                   op.stage = "update" /\ n.id \in op.ids /\ n.user_id = op.peer)
     /\ \A op \in fetchOps :
          (op.stage = "update" /\ op \notin fetchOps')
          => (/\ dbMessages' \in {dbMessages, MarkRead(dbMessages, op.ids)}
              /\ MarkRead(MarkRead(dbMessages, op.ids), op.ids) = MarkRead(dbMessages, op.ids)
              /\ (\A m \in dbMessages : m.id \in op.ids => m.is_read)
                   => dbMessages' = dbMessages)]_vars

(* C16 witness: the conversation is fetched again after its messages were  *)
(* marked read, while a message Self sent is stored and was not marked.    *)
C16_Witness ==
  /\ \E op \in fetchOps :
       /\ op.stage = "apply"
       /\ \E i \in 1..Len(op.data) : op.data[i].is_read /\ op.data[i].recipient_id = Self
  /\ \E m \in dbMessages : m.user_id = Self /\ ~m.is_read

(* C17: once the refresh that follows an accepted friend request has       *)
(* ended and no other is in flight, the list shows no friend_request item  *)
(* of a request that is no longer pending.                                 *)
C17_AcceptedItemConsumed ==
  notifOps = {} =>
    \A i \in 1..Len(notifications) :
      notifications[i].type = "friend_request"
      => \E f \in dbFriends : f.id = notifications[i].id /\ f.status = "pending"

(* C18: when the insert of a send is rejected while the conversation view  *)
(* is mounted, the conversation still shows an entry for that send.        *)
C18_RejectedSendKept ==
  [][\A op \in sendOps :
       (/\ op.stage = "insert" /\ op.live /\ chatMounted'
        /\ \A o \in sendOps' : o.created_at # op.created_at)
       => \E i \in 1..Len(messages') :
            messages'[i].user_id = Self /\ messages'[i].created_at = op.created_at]_vars

(* C19: a step that brings the connection back while a conversation is     *)
(* open, a message was missed and no fetch is in flight starts a history   *)
(* fetch of the open conversation and a refresh of the notifications.      *)
C19_ReconnectResyncs ==
  [][(/\ ~connected /\ connected'
      /\ selectedUser # NoUser
      /\ fetchOps = {} /\ notifOps = {}
      /\ \E m \in UnreadRows : dashMsgEv[m.id] = NotEmitted)
     => (/\ \E op \in fetchOps' \ fetchOps : op.peer = selectedUser
         /\ notifOps' \ notifOps # {})]_vars

(* C20: the notification list is in descending created_at order.           *)
C20_SortedDescending ==
  \A i, j \in 1..Len(notifications) :
    i < j => notifications[i].created_at >= notifications[j].created_at

(* C20 witness: after the ingest of a message event and the end of its     *)
(* refresh, a message item stands before an older friend_request item,     *)
(* against the order in which the two result sets are concatenated, and    *)
(* before an older message item of a smaller id.                           *)
C20_Witness ==
  /\ notifOps = {}
  /\ \E id \in MsgIds : dashMsgEv[id] >= 1
  /\ \E i, j \in 1..Len(notifications) :
       /\ i < j
       /\ notifications[i].type = "message"
       /\ notifications[j].type = "friend_request"
       /\ notifications[i].created_at > notifications[j].created_at
  /\ \E i, j \in 1..Len(notifications) :
       /\ i < j
       /\ notifications[i].type = "message"
       /\ notifications[j].type = "message"
       /\ notifications[i].id > notifications[j].id
       /\ notifications[i].created_at > notifications[j].created_at

(* C21: where every send checks the lock on the row it read (SpecRace), no *)
(* step inserts a message of Self while chat_locked is true.               *)
C21_NoInsertWhileLocked ==
  [][dbProfile.chat_locked => \A m \in dbMessages' \ dbMessages : m.user_id # Self]_vars

(* C22: the step that delivers the INSERT event of a message on the chat   *)
(* channel while the conversation with its sender is open leaves the       *)
(* message in the displayed list.                                          *)
C22_LiveEventApplied ==
  [][\A id \in MsgIds :
       (/\ chatEv[id] >= 0
        /\ chatEv'[id] = chatEv[id] + 1
        /\ selectedUser # NoUser
        /\ RowById(id).user_id = selectedUser)
       => \E i \in 1..Len(messages') : messages'[i].id = id]_vars

(* C23: while a conversation is open, every displayed message is one       *)
(* exchanged between Self and the selected peer.                           *)
C23_OnlySelectedConversation ==
  selectedUser # NoUser =>
    \A i \in 1..Len(messages) : ConversationFilter(messages[i], selectedUser)

(* C24: once every emitted event is delivered and no fetch is in flight,   *)
(* every item of the list is on the server: its friend request is pending  *)
(* or its message is unread.  This is the half of the claimed equality     *)
(* that a failed refresh, which keeps the previous list, cannot break.     *)
C24_ListWithinServerSet ==
  (/\ fetchOps = {}
   /\ notifOps = {}
   /\ \A id \in MsgIds : dashMsgEv[id] # 0
   /\ \A id \in FriendIds : dashFriendEv[id] # 0)
  => \A i \in 1..Len(notifications) :
       IF notifications[i].type = "message"
       THEN \E m \in UnreadRows : m.id = notifications[i].id
       ELSE \E f \in PendingRequests : f.id = notifications[i].id

(* ids of the messages of a fetched history that the peer sent to Self and *)
(* that are not read                                                       *)
UnreadIncoming(data, peer) ==
  {id \in MsgIds : \E i \in 1..Len(data) :
     /\ data[i].id = id
     /\ data[i].user_id = peer
     /\ data[i].recipient_id = Self
     /\ ~data[i].is_read}

(* C25: a history fetch goes on to a read-state write only when its        *)
(* snapshot holds unread incoming messages, and then to one write that     *)
(* lists all of them; its write is executed in one step, after which the   *)
(* fetch is over; and read state changes at no other step.                 *)
C25_OneBatchedWrite ==
  [][/\ \A op \in fetchOps :
          (op.stage = "apply" /\ op \notin fetchOps')
          => (/\ dbMessages' = dbMessages
              /\ IF UnreadIncoming(op.data, op.peer) = {}
                 THEN fetchOps' = fetchOps \ {op}
                 ELSE \E w \in fetchOps' :
                        /\ fetchOps' = (fetchOps \ {op}) \cup {w}
                        /\ w.stage = "update"
                        /\ w.peer = op.peer
                        /\ w.ids = UnreadIncoming(op.data, op.peer))
     /\ \A op \in fetchOps :
          (op.stage = "update" /\ op \notin fetchOps')
          => (/\ fetchOps' = fetchOps \ {op}
              /\ \A m \in dbMessages :
                   m \notin dbMessages' => (m.id \in op.ids /\ ~m.is_read))
     /\ dbMessages' # dbMessages /\ Cardinality(dbMessages') = Cardinality(dbMessages)
          => \E op \in fetchOps : op.stage = "update" /\ op \notin fetchOps']_vars

(* C25 witness: the history shown for the open conversation was fetched    *)
(* with two unread messages of the peer, and both are read now that the    *)
(* fetch is over.                                                          *)
C25_Witness ==
  /\ selectedUser = "p1"
  /\ fetchOps = {}
  /\ Len(messages) = 2
  /\ \A i \in 1..Len(messages) : messages[i].user_id = "p1" /\ ~messages[i].is_read
  /\ Cardinality({m \in RowsFrom("p1") : m.is_read}) = 2

(* C26: no toggle is lost: every toggleChatLock call on the own account    *)
(* whose write succeeds flips chat_locked, as it would if the calls ran    *)
(* one after the other.                                                    *)
C26_NoLostToggle ==
  [][\A op \in toggleOps :
       (/\ op.stage = "write"
        /\ op \notin toggleOps'
        /\ ProfileUpdatePolicy(Self, op.userId)
        /\ lastToast' # ToggleError)
       => dbProfile'.chat_locked # dbProfile.chat_locked]_vars

(* C27: a fetchNotifications call of which a select failed ends without a  *)
(* toast and with the list as it was; the failing select itself changes    *)
(* neither.                                                                *)
C27_FailedRefreshSilent ==
  [][/\ \A op \in notifOps :
          (op.stage = "apply" /\ op.failed /\ op \notin notifOps')
          => (notifications' = notifications /\ lastToast' = lastToast)
     /\ (\E op \in notifOps' \ notifOps : op.failed)
          => (notifications' = notifications /\ lastToast' = lastToast)]_vars

(* C27 witness: a first message is listed; the event of a second, unread   *)
(* message was ingested and its refresh is over, yet the second message is *)
(* not listed: the refresh failed, and no toast was shown.                 *)
C27_Witness ==
  /\ notifOps = {}
  /\ lastToast = NoToast
  /\ 1 \in MessageItemIds(notifications)
  /\ 2 \notin MessageItemIds(notifications)
  /\ dashMsgEv[2] >= 1
  /\ \E m \in UnreadRows : m.id = 2

\* C28: the socket emits messages in the order of the sendMessage calls:
\* of two emitted messages, the one passed to sendMessage first was
\* emitted first, whatever was queued and flushed in between.
C28_EmittedInCallOrder ==
  \A i, j \in 1..Len(emitted) : i < j => emitted[i].seq < emitted[j].seq

\* how many entries of a sequence of messages carry the number n
WsCount(s, n) == Cardinality({i \in 1..Len(s) : s[i].seq = n})

\* C29: every message passed to sendMessage so far is either in
\* messageQueue exactly once or was emitted exactly once, never both
\* and never neither.
C29_QueuedOrEmittedOnce ==
  \A n \in 1..(nextWsMsg - 1) :
    WsCount(messageQueue, n) + WsCount(emitted, n) = 1

\* all messages were sent, one was emitted by a flush after a connect,
\* and one whose emit threw while connected is back in the queue
C29_Witness ==
  /\ nextWsMsg > MaxWsMsgs
  /\ isConnected
  /\ flushLoops > 0
  /\ emitted # <<>>
  /\ \E i \in 1..Len(messageQueue) : ~messageQueue[i].serializable

\* C30: from any moment after which the socket stays connected, the
\* queue eventually becomes empty with no processMessageQueue running.
C30_QueueEventuallyFlushed ==
  []([]isConnected => <>(messageQueue = <<>> /\ flushLoops = 0))

====
